---- MODULE Spec2Model ----
(***************************************************************************)
(* Project-board layer of scripts/dev_ops_mcp_server.py: the item          *)
(* paginator (_github_get_project_items), the field schema resolver        *)
(* (_get_project_field_id_and_options) and the field mutator               *)
(* (_github_update_project_item_field), driven through handle_request.     *)
(*                                                                         *)
(* Strings whose letters matter (field names, option names, new_value)     *)
(* are sequences of one-letter strings, so that str.lower() is computed.   *)
(* Identifiers (board, field, option, item ids) are opaque TLA+ strings.   *)
(***************************************************************************)
EXTENDS Integers, Sequences, FiniteSets, TLC

VARIABLES
    boardItems,       \* remote: the board's item nodes, in board order
    boardFields,      \* remote: the board's field nodes, in board order
    boardId,          \* remote: the node id the board has at present
    itemsCreated,     \* remote: how many items the board was ever given
    pc,               \* position of the server inside the current tool call
    tool,             \* toolName of the current call
    args,             \* toolArgs of the current call
    project_node_id,  \* local of the running tool function
    items,            \* local: accumulated item_info list
    has_next_page,    \* local: loop flag of the pagination loop
    end_cursor,       \* local: cursor passed as `after`
    field_id,         \* local of _github_update_project_item_field
    options,          \* local: lowercased option name -> option id
    input_value,      \* local: the value payload of the mutation
    sent,             \* requests handed to post_graphql during this call
    received,         \* the remote's answers, parallel to sent
    response,         \* what send_response wrote for this call
    stdin,            \* the lines the client sends, in order
    lineno,           \* how many of them main has read
    stdout,           \* the response lines written, in order
    issue,            \* remote: the issue github_update_issue works on
    touched           \* the paths the file tools have opened or created

vars == <<boardItems, boardFields, boardId, itemsCreated, pc, tool, args,
          project_node_id, items,
          has_next_page, end_cursor, field_id, options, input_value,
          sent, received, response, stdin, lineno, stdout, issue, touched>>

\* the line channel of main
channel == <<stdin, lineno, stdout>>

(***************************************************************************)
(* Bounds of the model.                                                    *)
(***************************************************************************)
MaxItems == 3
MaxFields == 2

(***************************************************************************)
(* Python values.                                                          *)
(***************************************************************************)
\* None where an identifier (opaque string) is expected
NoneId == "<None>"
\* None where a character string is expected
NoneStr == <<"<None>">>
\* None where a cursor is expected; a cursor is a one-element sequence
NoCursor == <<>>
\* content: null in an item node
NullContent == [isNull |-> TRUE]
\* {} : the empty dict
EmptyDict == [k \in {} |-> NoneId]
\* null inside a decoded answer
JsonNull == NullContent

Min(a, b) == IF a <= b THEN a ELSE b

\* str.lower() on one letter
LowerChar(c) ==
    CASE c = "A" -> "a"
      [] c = "B" -> "b"
      [] c = "C" -> "c"
      [] OTHER -> c

\* str.lower()
Lower(s) == [i \in DOMAIN s |-> LowerChar(s[i])]

\* truthiness of an identifier argument (None and "" are falsy)
Truthy(id) == id # NoneId /\ id # ""

(***************************************************************************)
(* Sample data of the remote board.                                        *)
(***************************************************************************)
ContentStates == {"OPEN", "CLOSED", "MERGED"}
StateFilters == {"OPEN", "CLOSED", "ALL"}

ItemId(i) == "PVTI_" \o ToString(i)

\* the shapes an item node takes (without its id): issues and pull requests
\* with their state, drafts (content null, or a content object that matched
\* no fragment of the query), and items whose content the token may not see
ItemShapes ==
    {[type |-> "ISSUE", content |-> [state |-> "OPEN"],
      fieldValues |-> <<[field |-> [name |-> "Status"], name |-> "Todo"],
                        [field |-> [name |-> "Title"], text |-> "T"],
                        [field |-> [name |-> "Due"], date |-> "2024-01-01"]>>],
     [type |-> "ISSUE", content |-> [state |-> "CLOSED"], fieldValues |-> <<>>],
     [type |-> "PULL_REQUEST", content |-> [state |-> "OPEN"],
      fieldValues |-> <<>>],
     [type |-> "PULL_REQUEST", content |-> [state |-> "MERGED"],
      fieldValues |-> <<>>],
     [type |-> "DRAFT_ISSUE", content |-> NullContent, fieldValues |-> <<>>],
     [type |-> "DRAFT_ISSUE", content |-> EmptyDict, fieldValues |-> <<>>],
     [type |-> "REDACTED", content |-> NullContent, fieldValues |-> <<>>]}

ItemNode(i, sh) ==
    [id |-> ItemId(i), type |-> sh.type, content |-> sh.content,
     fieldValues |-> sh.fieldValues]

Boards ==
    UNION {{[i \in 1..n |-> ItemNode(i, f[i])] : f \in [1..n -> ItemShapes]} :
            n \in 0..MaxItems}

PROJECT_ID == "PVT_1"

\* the node ids the remote gives the board over time
BoardIds == {PROJECT_ID, "PVT_2"}

\* a url is the list of its pieces between slashes, which is what
\* str.split('/') makes of it:
\* https://github.com/orgs/o/projects/1
BOARD_URL == <<"https:", "", "github.com", "orgs", "o", "projects", "1">>

FieldId(i) == "PVTF_" \o ToString(i)
OptionId(i, j) == "OPT_" \o ToString(i) \o "_" \o ToString(j)

\* names of the board's fields: two that differ in letter case only, and one
\* other
FieldNames == {<<"A", "b">>, <<"a", "B">>, <<"C">>}

\* option lists of a single-select field, as lists of option names
OptionNameLists ==
    {<<>>, <<<<"A">>>>, <<<<"a">>, <<"B">>>>, <<<<"A">>, <<"a">>>>}

\* a field node: ProjectV2Field has id and name, ProjectV2SingleSelectField
\* has options as well
FieldShapes ==
    {[name |-> n] : n \in FieldNames}
    \cup
    {[name |-> n, options |-> os] : n \in FieldNames, os \in OptionNameLists}

FieldNode(i, sh) ==
    IF "options" \in DOMAIN sh
    THEN [id |-> FieldId(i), name |-> sh.name,
          options |-> [j \in DOMAIN sh.options |->
                          [id |-> OptionId(i, j), name |-> sh.options[j]]]]
    ELSE [id |-> FieldId(i), name |-> sh.name]

FieldBoards ==
    UNION {{[i \in 1..n |-> FieldNode(i, f[i])] : f \in [1..n -> FieldShapes]} :
            n \in 0..MaxFields}

\* arguments of github_update_project_item_field
FieldNameArgs == {<<"A", "B">>, <<"a", "b">>, <<"c">>, <<"b">>}
NewValues == {NoneStr, <<"a">>, <<"B">>, <<"c">>}
NewValueIds == {NoneId, "", "OPT_X"}

(***************************************************************************)
(* The remote API seen through post_graphql.                               *)
(***************************************************************************)
\* position in the board a cursor stands for
CursorPos(after) == IF after = NoCursor THEN 0 ELSE after[1]

\* page lengths the remote may answer with: at least one item while items
\* remain, at most `first`
PageLens(after, first) ==
    LET rest == Len(boardItems) - CursorPos(after)
    IN  IF rest <= 0 THEN {0} ELSE 1..Min(first, rest)

\* the items connection returned for items(first: $first, after: $after)
PageData(after, k) ==
    LET start == CursorPos(after)
    IN  [nodes |-> SubSeq(boardItems, start + 1, start + k),
         pageInfo |-> [hasNextPage |-> start + k < Len(boardItems),
                       endCursor |-> IF k = 0 THEN NoCursor
                                     ELSE <<start + k>>]]

\* ways a round trip fails: post_graphql raises GithubException (API error,
\* non-2xx answer) or the transport raises (timeout, connection error)
Failures == {"GithubException", "Timeout"}

(***************************************************************************)
(* handle_request: the response written for a tool call.                   *)
(***************************************************************************)
NoResponse == [type |-> "none"]

ToolResult(result) == [type |-> "result", toolResult |-> result]

ToolError(exc, msg) ==
    [type |-> "error", code |-> -32000, exc |-> exc, message |-> msg]

\* the exception a failed round trip surfaces as, after _graphql_query
GraphqlError(f) ==
    IF f = "GithubException"
    THEN ToolError("Exception", "GitHub GraphQL API error")
    ELSE ToolError(f, "transport failure")


(***************************************************************************)
(* _get_project_id_from_url and _get_project_node_id.                      *)
(***************************************************************************)
\* d[key] = value on a dict
Put(d, key, value) ==
    [k \in DOMAIN d \cup {key} |-> IF k = key THEN value ELSE d[k]]

\* d.get(key), None when the key is missing
Get(d, key) == IF key \in DOMAIN d THEN d[key] ELSE NoneId

Range(s) == {s[i] : i \in DOMAIN s}

\* list.index(x): position of the first x
Index(s, x) == CHOOSE i \in DOMAIN s : s[i] = x /\ \A j \in 1..(i - 1) : s[j] # x

RECURSIVE DropLeadingEmpty(_)
DropLeadingEmpty(s) ==
    IF s # <<>> /\ Head(s) = "" THEN DropLeadingEmpty(Tail(s)) ELSE s

RECURSIVE DropTrailingEmpty(_)
DropTrailingEmpty(s) ==
    IF s # <<>> /\ s[Len(s)] = ""
    THEN DropTrailingEmpty(SubSeq(s, 1, Len(s) - 1)) ELSE s

\* project_url.strip('/').split('/'): the slashes at both ends go, and the
\* empty string splits into ['']
UrlParts(url) ==
    LET stripped == DropTrailingEmpty(DropLeadingEmpty(url))
    IN  IF stripped = <<>> THEN <<"">> ELSE stripped

\* the pieces int() accepts
IsNumber(piece) == piece \in {"1", "7"}

\* int(piece)
ParseInt(piece) == IF piece = "1" THEN 1 ELSE 7

\* the two assignments after `if keyword in parts`, in their order
OwnerAndNumber(parts, keyword, owner_type) ==
    IF Index(parts, keyword) + 1 > Len(parts)
    THEN [raise |-> ToolError("IndexError", "list index out of range")]
    ELSE IF "projects" \notin Range(parts)
    THEN [raise |-> ToolError("ValueError", "'projects' is not in list")]
    ELSE IF Index(parts, "projects") + 1 > Len(parts)
    THEN [raise |-> ToolError("IndexError", "list index out of range")]
    ELSE IF ~IsNumber(parts[Index(parts, "projects") + 1])
    THEN [raise |-> ToolError("ValueError", "invalid literal for int()")]
    ELSE [owner_type |-> owner_type,
          login |-> parts[Index(parts, keyword) + 1],
          number |-> ParseInt(parts[Index(parts, "projects") + 1])]

\* the parse with the else branch falling back to an organization
LocateDefaultsToOrg(url) ==
    LET parts == UrlParts(url)
    IN  IF "users" \in Range(parts)
        THEN OwnerAndNumber(parts, "users", "user")
        ELSE [owner_type |-> "organization", login |-> parts[1], number |-> 1]

\* _get_project_id_from_url: the triple, or the exception raised
Locate(url) ==
    LET parts == UrlParts(url)
    IN  IF "users" \in Range(parts)
        THEN OwnerAndNumber(parts, "users", "user")
        ELSE IF "orgs" \in Range(parts)
        THEN OwnerAndNumber(parts, "orgs", "organization")
        ELSE [raise |-> ToolError("ValueError",
                                  "Invalid GitHub Project URL format")]

\* variables of the board-resolution query
ResolveVariables(ref) ==
    [op |-> "projectV2", owner_type |-> ref.owner_type, login |-> ref.login,
     number |-> ref.number]

\* the answer to the board-resolution query for a board that is found
BoardData(owner_type, id) == owner_type :> [projectV2 |-> [id |-> id]]

\* answers without a board id: owner missing or null, board missing or null,
\* id missing or empty
AbsentBoardData(owner_type) ==
    {EmptyDict,
     owner_type :> JsonNull,
     owner_type :> EmptyDict,
     owner_type :> [projectV2 |-> JsonNull],
     owner_type :> [projectV2 |-> EmptyDict],
     owner_type :> [projectV2 |-> [id |-> ""]]}

\* data.get(owner_type, {}).get('projectV2', {}).get('id') and the test on
\* it: .get on None raises AttributeError
ProjectIdOf(data, owner_type) ==
    LET owner == IF owner_type \in DOMAIN data THEN data[owner_type]
                 ELSE EmptyDict
    IN  IF owner = JsonNull
        THEN [raise |-> ToolError("AttributeError",
                          "'NoneType' object has no attribute 'get'")]
        ELSE LET board == IF "projectV2" \in DOMAIN owner
                          THEN owner.projectV2 ELSE EmptyDict
             IN  IF board = JsonNull
                 THEN [raise |-> ToolError("AttributeError",
                          "'NoneType' object has no attribute 'get'")]
                 ELSE IF ~Truthy(Get(board, "id"))
                 THEN [raise |-> ToolError("ValueError",
                          "Could not find project Node ID")]
                 ELSE [id |-> board.id]

(***************************************************************************)
(* _github_get_project_items: normalisation and state filter.              *)
(***************************************************************************)
\* truthiness of item_node['content']: None and {} are falsy
ContentTruthy(content) == content # NullContent /\ DOMAIN content # {}

\* fv['field']['name'] is read before the variant is looked at: a field
\* value that matched no fragment of the query is {} and raises KeyError
NodesRaise(nodes) ==
    \E i \in DOMAIN nodes :
        \E j \in DOMAIN nodes[i].fieldValues :
            "field" \notin DOMAIN nodes[i].fieldValues[j]

\* the loop over item_node['fieldValues']['nodes'], for nodes that do not
\* raise
RECURSIVE ItemFields(_, _)
ItemFields(nodes, acc) ==
    IF nodes = <<>> THEN acc
    ELSE LET fv == Head(nodes)
             field_name == fv.field.name
         IN  ItemFields(Tail(nodes),
                 IF "text" \in DOMAIN fv THEN Put(acc, field_name, fv.text)
                 ELSE IF "date" \in DOMAIN fv THEN Put(acc, field_name, fv.date)
                 ELSE IF "name" \in DOMAIN fv THEN Put(acc, field_name, fv.name)
                 ELSE acc)

\* item_info of one item node; the content_* keys exist only with content
ItemInfo(item_node) ==
    LET base == [id |-> item_node.id, type |-> item_node.type,
                 fields |-> ItemFields(item_node.fieldValues, EmptyDict)]
    IN  IF ContentTruthy(item_node.content)
        THEN [id |-> base.id, type |-> base.type, fields |-> base.fields,
              content_state |-> Get(item_node.content, "state")]
        ELSE base

\* should_add with the draft branch not tied to the OPEN filter
ShouldAddDraftsAlways(item_node, state) ==
    IF state = "ALL" THEN TRUE
    ELSE IF item_node.type = "DRAFT_ISSUE" THEN TRUE
    ELSE IF ContentTruthy(item_node.content)
            /\ Get(item_node.content, "state") = state THEN TRUE
    ELSE FALSE

\* should_add
ShouldAdd(item_node, state) ==
    IF state = "ALL" THEN TRUE
    ELSE IF item_node.type = "DRAFT_ISSUE" /\ state = "OPEN" THEN TRUE
    ELSE IF ContentTruthy(item_node.content)
            /\ Get(item_node.content, "state") = state THEN TRUE
    ELSE FALSE

\* the for loop with items.insert(0, item_info) in place of items.append
AddNodesPrepending(acc, nodes, state) ==
    LET RECURSIVE Go(_, _)
        Go(a, ns) ==
            IF ns = <<>> THEN a
            ELSE Go(IF ShouldAdd(Head(ns), state)
                    THEN <<ItemInfo(Head(ns))>> \o a ELSE a, Tail(ns))
    IN  Go(acc, nodes)

\* the for loop with items = [] inside the while loop: every page starts
\* the list anew
AddNodesPerPage(acc, nodes, state) ==
    LET RECURSIVE Go(_, _)
        Go(a, ns) ==
            IF ns = <<>> THEN a
            ELSE Go(IF ShouldAdd(Head(ns), state)
                    THEN Append(a, ItemInfo(Head(ns))) ELSE a, Tail(ns))
    IN  Go(<<>>, nodes)

\* the for loop over project_data['nodes']
RECURSIVE AddNodes(_, _, _)
AddNodes(acc, nodes, state) ==
    IF nodes = <<>> THEN acc
    ELSE AddNodes(IF ShouldAdd(Head(nodes), state)
                  THEN Append(acc, ItemInfo(Head(nodes))) ELSE acc,
                  Tail(nodes), state)

\* variables of a page request that never passes the cursor on
PageVariablesNoCursor(projectId, cursor) ==
    [op |-> "items", projectId |-> projectId, first |-> 50, after |-> NoCursor]

\* variables of one page request
PageVariables(projectId, cursor) ==
    [op |-> "items", projectId |-> projectId, first |-> 50, after |-> cursor]

\* a loop test with a page cap of its own
LoopContinuesCapped(flag) == flag /\ Len(sent) < 2

\* the `while has_next_page` test
LoopContinues(flag) == flag

(***************************************************************************)
(* Actions.                                                                *)
(***************************************************************************)
locals == <<project_node_id, items, has_next_page, end_cursor, field_id,
            options, input_value, sent, received, response>>

\* main: the response is written, the tool function's frame is gone and the
\* loop reads the next line
ReadNextLine ==
    /\ pc = "done"
    /\ pc' = "idle"
    /\ tool' = "none"
    /\ args' = EmptyDict
    /\ project_node_id' = NoneId
    /\ items' = <<>>
    /\ has_next_page' = FALSE
    /\ end_cursor' = NoCursor
    /\ field_id' = NoneId
    /\ options' = EmptyDict
    /\ input_value' = EmptyDict
    /\ sent' = <<>>
    /\ received' = <<>>
    /\ response' = NoResponse
    /\ UNCHANGED <<channel, issue, touched, boardItems, boardFields, boardId,
                   itemsCreated>>

\* handle_request: mcp_callTool github_get_project_items
CallGetProjectItems ==
    /\ pc = "idle"
    /\ \E st \in StateFilters :
          args' = [project_url |-> BOARD_URL,
                   state |-> st]
    /\ tool' = "github_get_project_items"
    /\ pc' = "resolve"
    /\ UNCHANGED locals
    /\ UNCHANGED <<channel, issue, touched, boardItems, boardFields, boardId,
                   itemsCreated>>

\* where a tool function goes after _get_project_node_id returned
AfterResolve ==
    CASE tool = "github_get_project_items" -> "page"
      [] tool = "github_update_project_item_field" -> "field"
      [] tool = "github_create_project_item" -> "create"
      [] OTHER -> "delete"

\* _get_project_node_id: the url does not parse, nothing is sent
GetProjectNodeIdBadUrl ==
    /\ pc = "resolve"
    /\ "raise" \in DOMAIN Locate(args.project_url)
    /\ response' = Locate(args.project_url).raise
    /\ pc' = "done"
    /\ UNCHANGED <<channel, issue, touched, boardItems, boardFields, boardId,
                   itemsCreated, tool, args,
                   project_node_id, items, has_next_page, end_cursor,
                   field_id, options, input_value, sent, received>>

\* _get_project_node_id returns the board id
GetProjectNodeId ==
    /\ pc = "resolve"
    /\ "raise" \notin DOMAIN Locate(args.project_url)
    /\ LET ref == Locate(args.project_url)
           data == BoardData(ref.owner_type, boardId)
       IN  /\ sent' = Append(sent, ResolveVariables(ref))
           /\ received' = Append(received, [ok |-> TRUE, data |-> data])
           /\ project_node_id' = ProjectIdOf(data, ref.owner_type).id
    /\ items' = <<>>
    /\ has_next_page' = (tool = "github_get_project_items")
    /\ end_cursor' = NoCursor
    /\ pc' = AfterResolve
    /\ UNCHANGED <<channel, issue, touched, boardItems, boardFields, boardId,
                   itemsCreated, tool, args,
                   field_id, options, input_value, response>>

\* _get_project_node_id: the answer carries no board id
GetProjectNodeIdNotFound ==
    /\ pc = "resolve"
    /\ "raise" \notin DOMAIN Locate(args.project_url)
    /\ LET ref == Locate(args.project_url)
       IN  /\ sent' = Append(sent, ResolveVariables(ref))
           /\ \E data \in AbsentBoardData(ref.owner_type) :
                 /\ received' = Append(received, [ok |-> TRUE, data |-> data])
                 /\ response' = ProjectIdOf(data, ref.owner_type).raise
    /\ pc' = "done"
    /\ UNCHANGED <<channel, issue, touched, boardItems, boardFields, boardId,
                   itemsCreated, tool, args,
                   project_node_id, items, has_next_page, end_cursor,
                   field_id, options, input_value>>

\* _get_project_node_id: the round trip fails
GetProjectNodeIdFails ==
    /\ pc = "resolve"
    /\ "raise" \notin DOMAIN Locate(args.project_url)
    /\ \E f \in Failures :
          /\ received' = Append(received, [ok |-> FALSE, failure |-> f])
          /\ response' = GraphqlError(f)
    /\ sent' = Append(sent, ResolveVariables(Locate(args.project_url)))
    /\ pc' = "done"
    /\ UNCHANGED <<channel, issue, touched, boardItems, boardFields, boardId,
                   itemsCreated, tool, args,
                   project_node_id, items, has_next_page, end_cursor,
                   field_id, options, input_value>>

\* one iteration of the pagination loop whose request succeeds (pc = "page":
\* the loop test passed); when the next loop test fails, the function returns
\* and handle_request answers
FetchPage ==
    /\ pc = "page"
    /\ LET variables == PageVariables(project_node_id, end_cursor)
       IN  \E k \in PageLens(variables.after, variables.first) :
             LET project_data == PageData(variables.after, k)
                 new_items == AddNodes(items, project_data.nodes, args.state)
                 more == project_data.pageInfo.hasNextPage
             IN  /\ ~NodesRaise(project_data.nodes)
                 /\ sent' = Append(sent, variables)
                 /\ received' = Append(received,
                        [ok |-> TRUE, nodes |-> project_data.nodes,
                         pageInfo |-> project_data.pageInfo])
                 /\ items' = new_items
                 /\ has_next_page' = more
                 /\ end_cursor' = project_data.pageInfo.endCursor
                 /\ IF LoopContinues(more)
                    THEN /\ pc' = "page"
                         /\ UNCHANGED response
                    ELSE /\ pc' = "done"
                         /\ response' = ToolResult(new_items)
    /\ UNCHANGED <<channel, issue, touched, boardItems, boardFields, boardId,
                   itemsCreated, tool, args,
                   project_node_id,
                   field_id, options, input_value>>

\* one iteration of the pagination loop in which fv['field'] raises: the
\* function is left with the exception and the items gathered are lost
FetchPageKeyError ==
    /\ pc = "page"
    /\ LET variables == PageVariables(project_node_id, end_cursor)
       IN  \E k \in PageLens(variables.after, variables.first) :
             LET project_data == PageData(variables.after, k)
             IN  /\ NodesRaise(project_data.nodes)
                 /\ sent' = Append(sent, variables)
                 /\ received' = Append(received,
                        [ok |-> TRUE, nodes |-> project_data.nodes,
                         pageInfo |-> project_data.pageInfo])
    /\ response' = ToolError("KeyError", "'field'")
    /\ pc' = "done"
    /\ UNCHANGED <<channel, issue, touched, boardItems, boardFields, boardId,
                   itemsCreated, tool, args,
                   project_node_id, items, has_next_page, end_cursor,
                   field_id, options, input_value>>

\* a failed page request answered with what was accumulated so far
PageFailurePartial(f, acc) == ToolResult(acc)

\* handle_request's except branch for a failed page request
PageFailure(f, acc) == GraphqlError(f)

\* a failed page request that is sent again
FetchPageFailsRetrying ==
    /\ pc = "page"
    /\ \E f \in Failures :
          received' = Append(received, [ok |-> FALSE, failure |-> f])
    /\ sent' = Append(sent, PageVariables(project_node_id, end_cursor))
    /\ UNCHANGED <<channel, issue, touched, boardItems, boardFields, boardId,
                   itemsCreated, pc, tool,
                   args, project_node_id, items, has_next_page, end_cursor,
                   field_id, options, input_value, response>>

\* one iteration of the pagination loop whose request fails
FetchPageFails ==
    /\ pc = "page"
    /\ \E f \in Failures :
          /\ received' = Append(received, [ok |-> FALSE, failure |-> f])
          /\ response' = PageFailure(f, items)
    /\ sent' = Append(sent, PageVariables(project_node_id, end_cursor))
    /\ pc' = "done"
    /\ UNCHANGED <<channel, issue, touched, boardItems, boardFields, boardId,
                   itemsCreated, tool, args,
                   project_node_id,
                   items, has_next_page, end_cursor, field_id, options,
                   input_value>>

\* no client line is modelled, no issue and no file is touched
NoClient ==
    /\ stdin = <<>>
    /\ lineno = 0
    /\ stdout = <<>>
    /\ issue = EmptyDict
    /\ touched = {}

InitLocals ==
    /\ pc = "idle"
    /\ tool = "none"
    /\ args = EmptyDict
    /\ project_node_id = NoneId
    /\ items = <<>>
    /\ has_next_page = FALSE
    /\ end_cursor = NoCursor
    /\ field_id = NoneId
    /\ options = EmptyDict
    /\ input_value = EmptyDict
    /\ sent = <<>>
    /\ received = <<>>
    /\ response = NoResponse

\* the item paginator over every board of up to MaxItems items
InitList ==
    /\ NoClient
    /\ boardItems \in Boards
    /\ boardFields = <<>>
    /\ boardId = PROJECT_ID
    /\ itemsCreated = Len(boardItems)
    /\ InitLocals

NextList ==
    \/ CallGetProjectItems
    \/ GetProjectNodeId
    \/ GetProjectNodeIdNotFound
    \/ GetProjectNodeIdFails
    \/ FetchPage
    \/ FetchPageFails
    \/ ReadNextLine

SpecList == InitList /\ [][NextList]_vars


(***************************************************************************)
(* _get_project_field_id_and_options and the value payload of              *)
(* _github_update_project_item_field.                                      *)
(***************************************************************************)
\* the loop over fields without .lower() on the requested name
FindFieldExactArg(fields, field_name) ==
    LET matches == {i \in DOMAIN fields : Lower(fields[i].name) = field_name}
    IN  IF matches = {} THEN 0
        ELSE CHOOSE i \in matches : \A j \in matches : i <= j

\* the loop over fields with its break: index of the first field whose
\* lowercased name equals the lowercased requested name, 0 for target_field
\* = None
FindField(fields, field_name) ==
    LET matches == {i \in DOMAIN fields :
                        Lower(fields[i].name) = Lower(field_name)}
    IN  IF matches = {} THEN 0
        ELSE CHOOSE i \in matches : \A j \in matches : i <= j

\* target_field.get('options', [])
FieldOptions(target_field) ==
    IF "options" \in DOMAIN target_field THEN target_field.options ELSE <<>>

\* {option['name'].lower(): option['id'] for option in ...}: a later option
\* overwrites an earlier one with the same lowercased name
RECURSIVE OptionsDict(_, _)
OptionsDict(opts, acc) ==
    IF opts = <<>> THEN acc
    ELSE OptionsDict(Tail(opts),
                     Put(acc, Lower(Head(opts).name), Head(opts).id))

\* the value branch with the name lookup tried before new_value_id
InputValueNameFirst(opts, new_value, new_value_id) ==
    IF new_value # NoneStr /\ DOMAIN opts # {}
    THEN LET option_id == Get(opts, Lower(new_value))
         IN  IF ~Truthy(option_id)
             THEN [raise |-> "Option not found"]
             ELSE [value |-> [singleSelectOptionId |-> option_id]]
    ELSE IF Truthy(new_value_id)
    THEN [value |-> [singleSelectOptionId |-> new_value_id]]
    ELSE IF new_value # NoneStr
    THEN [value |-> [text |-> new_value]]
    ELSE [raise |-> "Either 'new_value' or 'new_value_id' must be provided"]

\* the if / elif / else that builds input_value, or raises
InputValue(opts, new_value, new_value_id) ==
    IF Truthy(new_value_id)
    THEN [value |-> [singleSelectOptionId |-> new_value_id]]
    ELSE IF new_value # NoneStr
    THEN IF DOMAIN opts # {}
         THEN LET option_id == Get(opts, Lower(new_value))
              IN  IF ~Truthy(option_id)
                  THEN [raise |-> "Option not found"]
                  ELSE [value |-> [singleSelectOptionId |-> option_id]]
         ELSE [value |-> [text |-> new_value]]
    ELSE [raise |-> "Either 'new_value' or 'new_value_id' must be provided"]

\* handle_request: mcp_callTool github_update_project_item_field
CallUpdateProjectItemField ==
    /\ pc = "idle"
    /\ \E fn \in FieldNameArgs, nv \in NewValues, nid \in NewValueIds :
          args' = [project_url |-> BOARD_URL,
                   item_id |-> "PVTI_1", field_name |-> fn,
                   new_value |-> nv, new_value_id |-> nid]
    /\ tool' = "github_update_project_item_field"
    /\ pc' = "resolve"
    /\ UNCHANGED locals
    /\ UNCHANGED <<channel, issue, touched, boardItems, boardFields, boardId,
                   itemsCreated>>

FieldsQuery == [op |-> "fields", project_id |-> project_node_id]

FieldsData == [ok |-> TRUE, nodes |-> boardFields]

\* _get_project_field_id_and_options returns and input_value is built
ResolveField ==
    /\ pc = "field"
    /\ LET i == FindField(boardFields, args.field_name)
       IN  /\ i # 0
           /\ LET opts == OptionsDict(FieldOptions(boardFields[i]), EmptyDict)
                  iv == InputValue(opts, args.new_value, args.new_value_id)
              IN  /\ "value" \in DOMAIN iv
                  /\ field_id' = boardFields[i].id
                  /\ options' = opts
                  /\ input_value' = iv.value
    /\ sent' = Append(sent, FieldsQuery)
    /\ received' = Append(received, FieldsData)
    /\ pc' = "mutate"
    /\ UNCHANGED <<channel, issue, touched, boardItems, boardFields, boardId,
                   itemsCreated, tool, args,
                   project_node_id,
                   items, has_next_page, end_cursor, response>>

\* _get_project_field_id_and_options returns and building input_value
\* raises ValueError (option not found, or no value given at all)
ResolveFieldValueError ==
    /\ pc = "field"
    /\ LET i == FindField(boardFields, args.field_name)
       IN  /\ i # 0
           /\ LET opts == OptionsDict(FieldOptions(boardFields[i]), EmptyDict)
                  iv == InputValue(opts, args.new_value, args.new_value_id)
              IN  /\ "raise" \in DOMAIN iv
                  /\ field_id' = boardFields[i].id
                  /\ options' = opts
                  /\ response' =
                        IF iv.raise = "Option not found"
                        THEN [type |-> "error", code |-> -32000,
                              exc |-> "ValueError", message |-> iv.raise,
                              available |-> DOMAIN opts]
                        ELSE ToolError("ValueError", iv.raise)
    /\ sent' = Append(sent, FieldsQuery)
    /\ received' = Append(received, FieldsData)
    /\ pc' = "done"
    /\ UNCHANGED <<channel, issue, touched, boardItems, boardFields, boardId,
                   itemsCreated, tool, args,
                   project_node_id,
                   items, has_next_page, end_cursor, input_value>>

\* _get_project_field_id_and_options: no field has the name
ResolveFieldNotFound ==
    /\ pc = "field"
    /\ FindField(boardFields, args.field_name) = 0
    /\ sent' = Append(sent, FieldsQuery)
    /\ received' = Append(received, FieldsData)
    /\ response' = ToolError("ValueError", "Field not found")
    /\ pc' = "done"
    /\ UNCHANGED <<channel, issue, touched, boardItems, boardFields, boardId,
                   itemsCreated, tool, args,
                   project_node_id,
                   items, has_next_page, end_cursor, field_id, options,
                   input_value>>

\* _get_project_field_id_and_options: the round trip fails
ResolveFieldFails ==
    /\ pc = "field"
    /\ \E f \in Failures :
          /\ received' = Append(received, [ok |-> FALSE, failure |-> f])
          /\ response' = GraphqlError(f)
    /\ sent' = Append(sent, FieldsQuery)
    /\ pc' = "done"
    /\ UNCHANGED <<channel, issue, touched, boardItems, boardFields, boardId,
                   itemsCreated, tool, args,
                   project_node_id,
                   items, has_next_page, end_cursor, field_id, options,
                   input_value>>

\* the mutation's variables with a board id built in
MutationVariablesFixedBoard ==
    [op |-> "updateProjectV2ItemFieldValue", projectId |-> PROJECT_ID,
     itemId |-> args.item_id, fieldId |-> field_id, value |-> input_value]

\* variables of the updateProjectV2ItemFieldValue mutation
MutationVariables ==
    [op |-> "updateProjectV2ItemFieldValue", projectId |-> project_node_id,
     itemId |-> args.item_id, fieldId |-> field_id, value |-> input_value]

\* the mutation is sent and accepted
SendMutation ==
    /\ pc = "mutate"
    /\ sent' = Append(sent, MutationVariables)
    /\ received' = Append(received, [ok |-> TRUE])
    /\ response' = ToolResult([success |-> TRUE])
    /\ pc' = "done"
    /\ UNCHANGED <<channel, issue, touched, boardItems, boardFields, boardId,
                   itemsCreated, tool, args,
                   project_node_id,
                   items, has_next_page, end_cursor, field_id, options,
                   input_value>>

\* the mutation is sent and the round trip fails
SendMutationFails ==
    /\ pc = "mutate"
    /\ \E f \in Failures :
          /\ received' = Append(received, [ok |-> FALSE, failure |-> f])
          /\ response' = GraphqlError(f)
    /\ sent' = Append(sent, MutationVariables)
    /\ pc' = "done"
    /\ UNCHANGED <<channel, issue, touched, boardItems, boardFields, boardId,
                   itemsCreated, tool, args,
                   project_node_id,
                   items, has_next_page, end_cursor, field_id, options,
                   input_value>>

\* the field mutator over every board of up to MaxFields fields
InitUpdate ==
    /\ NoClient
    /\ boardItems = <<>>
    /\ boardFields \in FieldBoards
    /\ boardId = PROJECT_ID
    /\ itemsCreated = 0
    /\ InitLocals

NextUpdate ==
    \/ CallUpdateProjectItemField
    \/ GetProjectNodeId
    \/ GetProjectNodeIdNotFound
    \/ GetProjectNodeIdFails
    \/ ResolveField
    \/ ResolveFieldValueError
    \/ ResolveFieldNotFound
    \/ ResolveFieldFails
    \/ SendMutation
    \/ SendMutationFails
    \/ ReadNextLine

SpecUpdate == InitUpdate /\ [][NextUpdate]_vars

(***************************************************************************)
(* Properties of the item paginator.                                       *)
(***************************************************************************)
\* the listing returned successfully
ListDone ==
    /\ pc = "done"
    /\ tool = "github_get_project_items"
    /\ response.type = "result"

\* ids of the listing's result
ResultIds == {response.toolResult[j].id : j \in DOMAIN response.toolResult}

\* indices of the page requests of this call
PageRequests == {i \in DOMAIN sent : sent[i].op = "items"}

\* the item has no content (a draft)
HasNoContent(n) == ~ContentTruthy(n.content)

\* the state of the item's content is st
ContentStateIs(n, st) ==
    /\ ContentTruthy(n.content)
    /\ "state" \in DOMAIN n.content
    /\ n.content.state = st

\* C1: with filter OPEN, every item without content and every item whose
\* content state is OPEN is in the result, whatever its type tag is.
C1_OpenKeepsDraftsAndOpen ==
    (ListDone /\ args.state = "OPEN") =>
        \A i \in DOMAIN boardItems :
            (HasNoContent(boardItems[i]) \/ ContentStateIs(boardItems[i], "OPEN"))
                => boardItems[i].id \in ResultIds

\* C2: with filter CLOSED, the result holds exactly the items whose content
\* state is CLOSED: no item without content, none that is OPEN or MERGED.
C2_ClosedExactlyClosed ==
    (ListDone /\ args.state = "CLOSED") =>
        /\ \A i \in DOMAIN boardItems :
              boardItems[i].id \in ResultIds
                  <=> ContentStateIs(boardItems[i], "CLOSED")
        /\ \A j \in DOMAIN response.toolResult :
              /\ "content_state" \in DOMAIN response.toolResult[j]
              /\ response.toolResult[j].content_state = "CLOSED"

C2_Witness ==
    /\ ListDone /\ args.state = "CLOSED"
    /\ \E i \in DOMAIN boardItems : HasNoContent(boardItems[i])
                                     /\ boardItems[i].type = "DRAFT_ISSUE"
    /\ \E i \in DOMAIN boardItems : ContentStateIs(boardItems[i], "MERGED")
    /\ \E i \in DOMAIN boardItems : ContentStateIs(boardItems[i], "CLOSED")
    /\ Len(response.toolResult) = 1

\* the nodes of all pages received so far, in the order received
RECURSIVE PageNodes(_)
PageNodes(rs) ==
    IF rs = <<>> THEN <<>>
    ELSE (IF "nodes" \in DOMAIN Head(rs) THEN Head(rs).nodes ELSE <<>>)
         \o PageNodes(Tail(rs))

\* C3: with filter ALL, the result is one flat list holding every item of
\* every page exactly once, in page order and in the order within the page,
\* whatever the item's type and content state; it holds item records only.
C3_AllReturnsEveryItemInOrder ==
    (ListDone /\ args.state = "ALL") =>
        LET result == response.toolResult
            nodes == PageNodes(received)
        IN  /\ Len(result) = Len(nodes)
            /\ \A j \in DOMAIN result :
                  /\ result[j].id = nodes[j].id
                  /\ result[j].type = nodes[j].type
                  /\ DOMAIN result[j] \subseteq
                        {"id", "type", "fields", "content_state"}
            /\ \A j, k \in DOMAIN result :
                  result[j].id = result[k].id => j = k
            /\ Len(result) = Len(boardItems)
            /\ \A j \in DOMAIN result : result[j].id = boardItems[j].id

C3_Witness ==
    /\ ListDone /\ args.state = "ALL"
    /\ Cardinality(PageRequests) = 2
    /\ Len(response.toolResult) = 3
    /\ \E i \in DOMAIN boardItems : HasNoContent(boardItems[i])
    /\ \E i \in DOMAIN boardItems : ContentStateIs(boardItems[i], "CLOSED")

\* C4: page requests are cursor-chained: the first carries after = null and
\* page size 50, each later one carries the endCursor of the response just
\* before it, and a next page is requested iff that response had
\* hasNextPage = true.
C4_CursorChained ==
    /\ Len(received) = Len(sent)
    /\ \A i \in PageRequests :
          /\ sent[i].first = 50
          /\ IF i - 1 \in PageRequests
             THEN /\ received[i - 1].ok
                  /\ received[i - 1].pageInfo.hasNextPage
                  /\ sent[i].after = received[i - 1].pageInfo.endCursor
             ELSE sent[i].after = NoCursor
          /\ (received[i].ok /\ received[i].pageInfo.hasNextPage)
                => (i + 1 \in PageRequests \/ pc = "page")
          /\ (received[i].ok /\ ~received[i].pageInfo.hasNextPage)
                => (i = Len(sent) /\ pc = "done")

C4_Witness ==
    /\ Cardinality(PageRequests) = 3
    /\ sent[Len(sent)].after = <<2>>
    /\ received[Len(sent)].ok

\* C5: a listing that returns has issued exactly as many page requests as
\* it took to get the first response with hasNextPage = false: that response
\* is the last one, every earlier one had hasNextPage = true, an empty board
\* costs one request, and whatever the number of pages the board is drained;
\* the loop ends only on hasNextPage = false or on a failed request.
C5_StopsAtFirstLastPage ==
    /\ (tool = "github_get_project_items" /\ pc = "done"
        /\ PageRequests # {}) =>
          \/ ~received[Len(received)].ok
          \/ ~received[Len(received)].pageInfo.hasNextPage
    /\ ListDone =>
          /\ PageRequests # {}
          /\ \A i \in PageRequests :
                /\ received[i].ok
                /\ received[i].pageInfo.hasNextPage <=> i < Len(sent)
          /\ boardItems = <<>> => Cardinality(PageRequests) = 1
          /\ Len(PageNodes(received)) = Len(boardItems)
    /\ \A i \in PageRequests :
          (received[i].ok /\ ~received[i].pageInfo.hasNextPage)
              => i = Len(sent)

C5_Witness ==
    /\ ListDone
    /\ Cardinality(PageRequests) = 3
    /\ Len(boardItems) = 3

\* C6: when a page request fails after k >= 0 pages were fetched, the call
\* is answered with an error that carries none of the accumulated items,
\* never with a result.
C6_PageFailureIsError ==
    (/\ pc = "done"
     /\ tool = "github_get_project_items"
     /\ \E i \in PageRequests : ~received[i].ok)
        => /\ response.type = "error"
           /\ response.code = -32000
           /\ "toolResult" \notin DOMAIN response

C6_Witness ==
    /\ pc = "done"
    /\ tool = "github_get_project_items"
    /\ Cardinality(PageRequests) = 3
    /\ ~received[Len(received)].ok
    /\ Len(items) = 2
    /\ response.type = "error"


(***************************************************************************)
(* Properties of the field resolver and the field mutator.                 *)
(***************************************************************************)
UpdateCall == tool = "github_update_project_item_field"

\* the mutations sent by this call
Mutations ==
    {i \in DOMAIN sent : sent[i].op = "updateProjectV2ItemFieldValue"}

\* the board's field the call resolved (field_id is set once it has)
ResolvedField ==
    boardFields[CHOOSE i \in DOMAIN boardFields : boardFields[i].id = field_id]

\* the discovered kind of a field node: single-select iff it carries options
FieldKind(f) == IF "options" \in DOMAIN f THEN "SINGLE_SELECT" ELSE "TEXT"

\* new_value equals, letter case aside, the name of an option of the field
MatchesOption(f, new_value) ==
    /\ "options" \in DOMAIN f
    /\ \E j \in DOMAIN f.options : Lower(f.options[j].name) = Lower(new_value)

OptionNotFound ==
    /\ response.type = "error"
    /\ response.message = "Option not found"

\* C7: the payload shape of every mutation sent depends on the resolved
\* field's kind alone: text iff the field is TEXT, single-select option id
\* iff it is SINGLE_SELECT, whichever of new_value / new_value_id was given.
C7_PayloadShapeByKindAlone ==
    \A i \in Mutations :
        /\ "text" \in DOMAIN sent[i].value
              <=> FieldKind(ResolvedField) = "TEXT"
        /\ "singleSelectOptionId" \in DOMAIN sent[i].value
              <=> FieldKind(ResolvedField) = "SINGLE_SELECT"

\* C8: OPTION_NOT_FOUND, listing the available options, is the answer iff no
\* option id was given, the resolved field is single-select and new_value
\* matches none of its option names case-insensitively, and then no mutation
\* is sent; on a text field new_value is sent as free text.
C8_OptionNotFoundIff ==
    (pc = "done" /\ UpdateCall) =>
        /\ OptionNotFound <=>
              /\ field_id # NoneId
              /\ ~Truthy(args.new_value_id)
              /\ args.new_value # NoneStr
              /\ FieldKind(ResolvedField) = "SINGLE_SELECT"
              /\ ~MatchesOption(ResolvedField, args.new_value)
        /\ OptionNotFound =>
              /\ Mutations = {}
              /\ response.available =
                    {Lower(ResolvedField.options[j].name) :
                        j \in DOMAIN ResolvedField.options}
        /\ (/\ field_id # NoneId
            /\ ~Truthy(args.new_value_id)
            /\ args.new_value # NoneStr
            /\ FieldKind(ResolvedField) = "TEXT")
              => /\ Mutations # {}
                 /\ \A i \in Mutations :
                       sent[i].value = [text |-> args.new_value]

\* C9: with a new_value_id given, no option name is looked up: the id is
\* sent verbatim as the option id and the call succeeds, also when new_value
\* is absent or matches no option of the field.
C9_IdBypassesLookup ==
    (UpdateCall /\ Truthy(args.new_value_id)) =>
        /\ \A i \in Mutations :
              sent[i].value = [singleSelectOptionId |-> args.new_value_id]
        /\ field_id # NoneId => (pc = "mutate" \/ Mutations # {})
        /\ response.type = "error" =>
              response.message \notin
                  {"Option not found",
                   "Either 'new_value' or 'new_value_id' must be provided"}
        /\ (pc = "done" /\ Mutations # {} /\ received[Len(received)].ok)
              => response = ToolResult([success |-> TRUE])

C9_Witness ==
    /\ UpdateCall /\ pc = "done"
    /\ args.new_value_id = "OPT_X"
    /\ args.new_value = <<"c">>
    /\ field_id # NoneId
    /\ FieldKind(ResolvedField) = "SINGLE_SELECT"
    /\ DOMAIN options # {}
    /\ ~MatchesOption(ResolvedField, args.new_value)
    /\ response.type = "result"

\* what _get_project_field_id_and_options gives for a name: <<field_id,
\* options>>, or <<>> when it raises
Descriptor(fields, field_name) ==
    LET i == FindField(fields, field_name)
    IN  IF i = 0 THEN <<>>
        ELSE <<fields[i].id, OptionsDict(FieldOptions(fields[i]), EmptyDict)>>

\* the fields query of this call was answered
FieldsAnswered ==
    \E i \in DOMAIN received : "nodes" \in DOMAIN received[i]

\* boardFields[i] has the requested name, letter case aside
NameMatches(i, field_name) ==
    /\ Len(boardFields[i].name) = Len(field_name)
    /\ \A k \in DOMAIN field_name :
          LowerChar(boardFields[i].name[k]) = LowerChar(field_name[k])

C11_OptionsMappingMatchesKind ==
    (UpdateCall /\ field_id # NoneId) =>
        LET opts == FieldOptions(ResolvedField)
        IN  /\ DOMAIN options = {Lower(opts[j].name) : j \in DOMAIN opts}
            /\ \A k \in DOMAIN options :
                  \E j \in DOMAIN opts :
                      Lower(opts[j].name) = k /\ opts[j].id = options[k]
            /\ (DOMAIN options = {}) <=> (FieldKind(ResolvedField) = "TEXT")

(***************************************************************************)
(* Locating and resolving the board for any url: the listing of an empty   *)
(* board called with every url of up to MaxSegs pieces.                    *)
(***************************************************************************)
MaxSegs == 4

\* the pieces the sample urls are made of
UrlPieces == {"", "users", "orgs", "projects", "o", "1"}

Urls == UNION {[1..n -> UrlPieces] : n \in 1..MaxSegs}

\* mcp_callTool github_get_project_items with any url
CallGetProjectItemsAt ==
    /\ pc = "idle"
    /\ \E url \in Urls :
          args' = [project_url |-> url, state |-> "ALL"]
    /\ tool' = "github_get_project_items"
    /\ pc' = "resolve"
    /\ UNCHANGED locals
    /\ UNCHANGED <<channel, issue, touched, boardItems, boardFields, boardId,
                   itemsCreated>>

InitLocate ==
    /\ NoClient
    /\ boardItems = <<>>
    /\ boardFields = <<>>
    /\ boardId = PROJECT_ID
    /\ itemsCreated = 0
    /\ InitLocals

NextLocate ==
    \/ CallGetProjectItemsAt
    \/ GetProjectNodeIdBadUrl
    \/ GetProjectNodeId
    \/ GetProjectNodeIdNotFound
    \/ GetProjectNodeIdFails
    \/ FetchPage
    \/ FetchPageFails
    \/ ReadNextLine

SpecLocate == InitLocate /\ [][NextLocate]_vars

\* _get_project_id_from_url has run in this call
Located == tool # "none" /\ pc \notin {"idle", "resolve"}

\* the error of the else branch of _get_project_id_from_url
ParseError == ToolError("ValueError", "Invalid GitHub Project URL format")

\* the pieces of the call's url
Parts == UrlParts(args.project_url)

\* C13: for every url with neither a users nor an orgs piece, locating
\* fails with the parse error of the else branch and with nothing else,
\* whatever the rest of the url is, and nothing is sent.
C13_NoOwnerKeywordIsParseError ==
    (Located /\ "users" \notin Range(Parts) /\ "orgs" \notin Range(Parts)) =>
        /\ pc = "done"
        /\ response = ParseError
        /\ sent = <<>>

\* a url with a projects piece and a non-numeric tail, without owner keyword
C13_Witness ==
    /\ Located
    /\ args.project_url = <<"", "o", "projects", "o">>
    /\ response = ParseError

\* the triples the parsing rule allows for the keyword: keyword/<name>
\* followed later by projects/<number>
Allowed(parts, keyword, owner_type) ==
    {[op |-> "projectV2", owner_type |-> owner_type, login |-> parts[i + 1],
      number |-> ParseInt(parts[j + 1])] :
        <<i, j>> \in {ij \in (DOMAIN parts) \X (DOMAIN parts) :
                        /\ parts[ij[1]] = keyword
                        /\ ij[2] >= ij[1] + 2
                        /\ parts[ij[2]] = "projects"
                        /\ ij[2] + 1 <= Len(parts)
                        /\ IsNumber(parts[ij[2] + 1])}}

\* C14: a url with users/<name> followed later by projects/<n> locates
\* (user, name, n), one with orgs/<name> followed later by projects/<n>
\* locates (organization, name, n), and every url of another shape fails
\* with the parse error.
C14_LocateByShape ==
    Located =>
        LET allowed == Allowed(Parts, "users", "user")
                       \cup Allowed(Parts, "orgs", "organization")
        IN  IF allowed # {}
            THEN sent # <<>> /\ sent[1] \in allowed
            ELSE sent = <<>> /\ response = ParseError

\* C15: whenever the answer to the resolution query carries no board id
\* (owner missing or null, board missing or null, id missing or empty) the
\* call ends with the one "could not find" error, and the board id a call
\* works with is never empty.
C15_AbsentBoardIsNotFound ==
    /\ \A i \in DOMAIN received :
          (sent[i].op = "projectV2" /\ received[i].ok
           /\ received[i].data \in AbsentBoardData(sent[i].owner_type)) =>
              /\ pc = "done"
              /\ response = ToolError("ValueError",
                                      "Could not find project Node ID")
    /\ project_node_id # ""

(***************************************************************************)
(* _github_create_project_item.                                            *)
(***************************************************************************)
\* a url that is not a board's
OTHER_URL == <<"https:", "", "github.com", "o">>

ProjectUrls == {BOARD_URL, OTHER_URL}

Titles == {NoneId, "T"}

IssueIds == {NoneId, "I_1", "X_1"}

\* issue_id.startswith("I_") or issue_id.startswith("PR_"), over the sample
\* ids
HasNodePrefix(issue_id) == issue_id \in {"I_1", "PR_1"}

\* mcp_callTool github_create_project_item: handle_request's own test of the
\* arguments, then the tool function
CallCreateProjectItem ==
    /\ pc = "idle"
    /\ itemsCreated < MaxItems
    /\ \E url \in ProjectUrls, title \in Titles, issue_id \in IssueIds :
          /\ args' = [project_url |-> url, title |-> title, body |-> "",
                      issue_id |-> issue_id]
          /\ IF ~Truthy(issue_id) /\ ~Truthy(title)
             THEN /\ response' = ToolError("ValueError",
                        "Either 'title' or 'issue_id' must be provided")
                  /\ pc' = "done"
             ELSE /\ response' = response
                  /\ pc' = "resolve"
    /\ tool' = "github_create_project_item"
    /\ UNCHANGED <<channel, issue, touched, boardItems, boardFields, boardId,
                   itemsCreated,
                   project_node_id, items, has_next_page, end_cursor,
                   field_id, options, input_value, sent, received>>

\* the branch on issue_id: the mutation's variables and the message, or the
\* exception raised
CreateRequest(project_id, title, body, issue_id) ==
    IF Truthy(issue_id)
    THEN IF ~HasNodePrefix(issue_id)
         THEN [raise |-> ToolError("ValueError", "Invalid issue_id")]
         ELSE [variables |-> [op |-> "addProjectV2Item",
                              projectId |-> project_id,
                              contentId |-> issue_id],
               message |-> "Linked existing issue/PR to project."]
    ELSE IF ~Truthy(title)
         THEN [raise |-> ToolError("ValueError", "Title is required")]
         ELSE [variables |-> [op |-> "addProjectV2DraftIssue",
                              projectId |-> project_id,
                              title |-> title, body |-> body],
               message |-> "Created new draft issue in project."]

\* the request of the call in progress
ThisCreateRequest ==
    CreateRequest(project_node_id, args.title, args.body, args.issue_id)

\* data.get(k1, {}).get(k2, {}).get('id'), or the AttributeError of .get on
\* None
IdAt(data, k1, k2) ==
    LET outer == IF k1 \in DOMAIN data THEN data[k1] ELSE EmptyDict
    IN  IF outer = JsonNull
        THEN [raise |-> ToolError("AttributeError",
                          "'NoneType' object has no attribute 'get'")]
        ELSE LET inner == IF k2 \in DOMAIN outer THEN outer[k2] ELSE EmptyDict
             IN  IF inner = JsonNull
                 THEN [raise |-> ToolError("AttributeError",
                          "'NoneType' object has no attribute 'get'")]
                 ELSE [id |-> Get(inner, "id")]

\* item_id = ... or ...: the second chain is evaluated only when the first
\* gives a falsy id
CreatedItemId(data) ==
    LET linked == IdAt(data, "addProjectV2Item", "item")
    IN  IF "raise" \in DOMAIN linked THEN linked
        ELSE IF Truthy(linked.id) THEN linked
        ELSE IdAt(data, "addProjectV2DraftIssue", "projectV2Item")

\* the answer of a mutation that added the item
CreatedData(op, id) ==
    IF op = "addProjectV2Item"
    THEN [addProjectV2Item |-> [item |-> [id |-> id]]]
    ELSE [addProjectV2DraftIssue |-> [projectV2Item |-> [id |-> id]]]

\* the item node the board gets: a linked issue, or a draft whose content
\* matches no fragment of the items query
CreatedNode(variables, id) ==
    IF variables.op = "addProjectV2Item"
    THEN [id |-> id, type |-> "ISSUE", content |-> [state |-> "OPEN"],
          fieldValues |-> <<>>]
    ELSE [id |-> id, type |-> "DRAFT_ISSUE", content |-> EmptyDict,
          fieldValues |-> <<[field |-> [name |-> "Title"],
                             text |-> variables.title]>>]

\* answers of a mutation that added nothing
RejectedCreateData(op) == {EmptyDict, op :> JsonNull}

\* the branch on issue_id raises, nothing more is sent
CreateProjectItemValueError ==
    /\ pc = "create"
    /\ "raise" \in DOMAIN ThisCreateRequest
    /\ response' = ThisCreateRequest.raise
    /\ pc' = "done"
    /\ UNCHANGED <<channel, issue, touched, boardItems, boardFields, boardId,
                   itemsCreated, tool, args,
                   project_node_id, items, has_next_page, end_cursor,
                   field_id, options, input_value, sent, received>>

\* the mutation is sent and the item is added
CreateProjectItem ==
    /\ pc = "create"
    /\ "raise" \notin DOMAIN ThisCreateRequest
    /\ LET variables == ThisCreateRequest.variables
           data == CreatedData(variables.op, ItemId(itemsCreated + 1))
       IN  /\ sent' = Append(sent, variables)
           /\ received' = Append(received, [ok |-> TRUE, data |-> data])
           /\ boardItems' = Append(boardItems,
                                   CreatedNode(variables,
                                               ItemId(itemsCreated + 1)))
           /\ response' = ToolResult([success |-> TRUE,
                                      message |-> ThisCreateRequest.message,
                                      item_id |-> CreatedItemId(data).id])
    /\ itemsCreated' = itemsCreated + 1
    /\ pc' = "done"
    /\ UNCHANGED <<channel, issue, touched, boardFields, boardId, tool, args,
                   project_node_id, items, has_next_page, end_cursor,
                   field_id, options, input_value>>

\* the mutation is sent and the answer carries no item id
CreateProjectItemRejected ==
    /\ pc = "create"
    /\ "raise" \notin DOMAIN ThisCreateRequest
    /\ LET variables == ThisCreateRequest.variables
       IN  /\ sent' = Append(sent, variables)
           /\ \E data \in RejectedCreateData(variables.op) :
                 /\ received' = Append(received, [ok |-> TRUE, data |-> data])
                 /\ response' =
                       IF "raise" \in DOMAIN CreatedItemId(data)
                       THEN CreatedItemId(data).raise
                       ELSE ToolError("Exception",
                                "Failed to create/link project item")
    /\ pc' = "done"
    /\ UNCHANGED <<channel, issue, touched, boardItems, boardFields, boardId,
                   itemsCreated, tool, args,
                   project_node_id, items, has_next_page, end_cursor,
                   field_id, options, input_value>>

\* the mutation is sent and the round trip fails
CreateProjectItemFails ==
    /\ pc = "create"
    /\ "raise" \notin DOMAIN ThisCreateRequest
    /\ \E f \in Failures :
          /\ received' = Append(received, [ok |-> FALSE, failure |-> f])
          /\ response' = GraphqlError(f)
    /\ sent' = Append(sent, ThisCreateRequest.variables)
    /\ pc' = "done"
    /\ UNCHANGED <<channel, issue, touched, boardItems, boardFields, boardId,
                   itemsCreated, tool, args,
                   project_node_id, items, has_next_page, end_cursor,
                   field_id, options, input_value>>

(***************************************************************************)
(* _github_delete_project_item.                                            *)
(***************************************************************************)
\* mcp_callTool github_delete_project_item
CallDeleteProjectItem ==
    /\ pc = "idle"
    /\ \E url \in ProjectUrls, item_id \in {ItemId(1), ItemId(2)} :
          args' = [project_url |-> url, item_id |-> item_id]
    /\ tool' = "github_delete_project_item"
    /\ pc' = "resolve"
    /\ UNCHANGED locals
    /\ UNCHANGED <<channel, issue, touched, boardItems, boardFields, boardId,
                   itemsCreated>>

\* variables of the deleteProjectV2Item mutation
DeleteVariables ==
    [op |-> "deleteProjectV2Item", projectId |-> project_node_id,
     itemId |-> args.item_id]

\* data.get('deleteProjectV2Item', {}).get('deletedItemId'), or the
\* AttributeError of .get on None
DeletedIdOf(data) ==
    LET entry == IF "deleteProjectV2Item" \in DOMAIN data
                 THEN data.deleteProjectV2Item ELSE EmptyDict
    IN  IF entry = JsonNull
        THEN [raise |-> ToolError("AttributeError",
                          "'NoneType' object has no attribute 'get'")]
        ELSE [id |-> Get(entry, "deletedItemId")]

\* the test on deleted_id
DeleteOutcome(data) ==
    IF "raise" \in DOMAIN DeletedIdOf(data) THEN DeletedIdOf(data).raise
    ELSE IF ~Truthy(DeletedIdOf(data).id)
    THEN ToolError("Exception", "Failed to delete project item")
    ELSE ToolResult([success |-> TRUE])

\* answers without a deleted id: entry missing, entry null, id missing, id
\* empty
RejectedDeleteData ==
    {EmptyDict,
     [deleteProjectV2Item |-> JsonNull],
     [deleteProjectV2Item |-> EmptyDict],
     [deleteProjectV2Item |-> [deletedItemId |-> ""]]}

\* the board without the item
RECURSIVE Without(_, _)
Without(nodes, id) ==
    IF nodes = <<>> THEN <<>>
    ELSE IF Head(nodes).id = id THEN Without(Tail(nodes), id)
    ELSE <<Head(nodes)>> \o Without(Tail(nodes), id)

\* the mutation is sent and the item is removed
DeleteProjectItem ==
    /\ pc = "delete"
    /\ \E i \in DOMAIN boardItems : boardItems[i].id = args.item_id
    /\ LET data == [deleteProjectV2Item |-> [deletedItemId |-> args.item_id]]
       IN  /\ received' = Append(received, [ok |-> TRUE, data |-> data])
           /\ response' = DeleteOutcome(data)
    /\ sent' = Append(sent, DeleteVariables)
    /\ boardItems' = Without(boardItems, args.item_id)
    /\ pc' = "done"
    /\ UNCHANGED <<channel, issue, touched, boardFields, boardId, itemsCreated, tool, args,
                   project_node_id, items, has_next_page, end_cursor,
                   field_id, options, input_value>>

\* the mutation is sent and the answer carries no deleted id
DeleteProjectItemRejected ==
    /\ pc = "delete"
    /\ \E data \in RejectedDeleteData :
          /\ received' = Append(received, [ok |-> TRUE, data |-> data])
          /\ response' = DeleteOutcome(data)
    /\ sent' = Append(sent, DeleteVariables)
    /\ pc' = "done"
    /\ UNCHANGED <<channel, issue, touched, boardItems, boardFields, boardId,
                   itemsCreated, tool, args,
                   project_node_id, items, has_next_page, end_cursor,
                   field_id, options, input_value>>

\* the mutation is sent and the round trip fails
DeleteProjectItemFails ==
    /\ pc = "delete"
    /\ \E f \in Failures :
          /\ received' = Append(received, [ok |-> FALSE, failure |-> f])
          /\ response' = GraphqlError(f)
    /\ sent' = Append(sent, DeleteVariables)
    /\ pc' = "done"
    /\ UNCHANGED <<channel, issue, touched, boardItems, boardFields, boardId,
                   itemsCreated, tool, args,
                   project_node_id, items, has_next_page, end_cursor,
                   field_id, options, input_value>>

(***************************************************************************)
(* The four board operations served one call after the other.              *)
(***************************************************************************)
\* boards the server starts against: empty, one issue, and an issue one of
\* whose field values matches no fragment of the query followed by a draft
StartBoards ==
    {<<>>,
     <<ItemNode(1, [type |-> "ISSUE", content |-> [state |-> "OPEN"],
                    fieldValues |-> <<[field |-> [name |-> "Title"],
                                       text |-> "T"]>>])>>,
     <<ItemNode(1, [type |-> "ISSUE", content |-> [state |-> "CLOSED"],
                    fieldValues |-> <<[field |-> [name |-> "Status"],
                                       name |-> "Done"],
                                      EmptyDict>>]),
       ItemNode(2, [type |-> "DRAFT_ISSUE", content |-> NullContent,
                    fieldValues |-> <<>>])>>}

\* the fields of those boards: a text field and a single-select field
StartFields ==
    <<FieldNode(1, [name |-> <<"C">>]),
      FieldNode(2, [name |-> <<"a", "B">>,
                    options |-> <<<<"a">>, <<"B">>>>])>>

Init ==
    /\ NoClient
    /\ boardItems \in StartBoards
    /\ boardFields = StartFields
    /\ boardId \in BoardIds
    /\ itemsCreated = Len(boardItems)
    /\ InitLocals

Next ==
    \/ CallGetProjectItems
    \/ CallUpdateProjectItemField
    \/ CallCreateProjectItem
    \/ CallDeleteProjectItem
    \/ GetProjectNodeIdBadUrl
    \/ GetProjectNodeId
    \/ GetProjectNodeIdNotFound
    \/ GetProjectNodeIdFails
    \/ FetchPage
    \/ FetchPageKeyError
    \/ FetchPageFails
    \/ ResolveField
    \/ ResolveFieldValueError
    \/ ResolveFieldNotFound
    \/ ResolveFieldFails
    \/ SendMutation
    \/ SendMutationFails
    \/ CreateProjectItemValueError
    \/ CreateProjectItem
    \/ CreateProjectItemRejected
    \/ CreateProjectItemFails
    \/ DeleteProjectItem
    \/ DeleteProjectItemRejected
    \/ DeleteProjectItemFails
    \/ ReadNextLine

Spec == Init /\ [][Next]_vars

CreateCall == tool = "github_create_project_item"

DeleteCall == tool = "github_delete_project_item"

ListCall == tool = "github_get_project_items"

\* C12: a create call given both an issue id and a title, or neither, ends
\* with the argument error and sends nothing at all; a call given exactly
\* one of them sends at most one mutation, of the kind of the path (link
\* for an issue id, draft for a title), and exactly one when it succeeds.
C12_ExactlyOnePath ==
    CreateCall =>
        LET linking == Truthy(args.issue_id)
            drafting == Truthy(args.title)
            mutations == {i \in DOMAIN sent : sent[i].op # "projectV2"}
        IN  IF linking = drafting
            THEN /\ pc = "done"
                 /\ response.type = "error"
                 /\ response.exc = "ValueError"
                 /\ sent = <<>>
            ELSE /\ Cardinality(mutations) <= 1
                 /\ \A i \in mutations :
                       sent[i].op = IF linking THEN "addProjectV2Item"
                                    ELSE "addProjectV2DraftIssue"
                 /\ (pc = "done" /\ response.type = "result") =>
                       Cardinality(mutations) = 1

\* the delete mutation of this call was answered
DeleteAnswered ==
    /\ DeleteCall
    /\ pc = "done"
    /\ sent # <<>>
    /\ sent[Len(sent)].op = "deleteProjectV2Item"
    /\ received[Len(received)].ok

\* C17: a delete call reports success only when the mutation's answer
\* carries a non-empty deleted id, and an answer without one (entry missing
\* or null, id missing or empty) is always reported as the "failed to
\* delete" error.
C17_DeleteNeedsDeletedId ==
    DeleteAnswered =>
        LET data == received[Len(received)].data
        IN  IF data \in RejectedDeleteData
            THEN response = ToolError("Exception",
                                      "Failed to delete project item")
            ELSE /\ response.type = "result"
                 /\ Truthy(data.deleteProjectV2Item.deletedItemId)

\* every page of the listing was fetched and answered
ListAnswered ==
    /\ ListCall
    /\ pc = "done"
    /\ Len(received) >= 2
    /\ \A i \in DOMAIN received : received[i].ok
    /\ ~received[Len(received)].pageInfo.hasNextPage

\* the item nodes of the pages received
ReceivedNodes ==
    {received[i].nodes[j] :
        <<i, j>> \in {ij \in (2..Len(received)) \X (1..MaxItems + 1) :
                        ij[2] <= Len(received[ij[1]].nodes)}}

\* the field values of the node that carry one of text, date, name
RECURSIVE Recognized(_)
Recognized(fvs) ==
    IF fvs = <<>> THEN <<>>
    ELSE IF "field" \in DOMAIN Head(fvs) THEN <<Head(fvs)>> \o Recognized(Tail(fvs))
    ELSE Recognized(Tail(fvs))

\* C18: a field value of an unrecognized variant is dropped silently: a
\* listing whose pages were all answered returns a result, with every item
\* that passes the state filter and with the item's other field values.
C18_UnknownVariantDropped ==
    ListAnswered =>
        /\ response.type = "result"
        /\ \A n \in ReceivedNodes :
              ShouldAdd(n, args.state) =>
                  \E j \in DOMAIN response.toolResult :
                      /\ response.toolResult[j].id = n.id
                      /\ response.toolResult[j].fields =
                            ItemFields(Recognized(n.fieldValues), EmptyDict)

\* C19: nothing is sent twice within a call, every request has its answer,
\* and a failed request is the call's last: the call is over and its
\* response is that failure.
C19_NothingRetried ==
    /\ Len(received) = Len(sent)
    /\ \A i, j \in DOMAIN sent : i # j => sent[i] # sent[j]
    /\ \A i \in DOMAIN received :
          ~received[i].ok =>
              /\ i = Len(sent)
              /\ pc = "done"
              /\ response = GraphqlError(received[i].failure)

\* the second page request of a listing fails
C19_Witness ==
    /\ ListCall /\ pc = "done"
    /\ Len(sent) = 3
    /\ received[2].ok
    /\ ~received[3].ok
    /\ response.type = "error"

\* the board id a request carries
RequestBoardId(req) ==
    IF "projectId" \in DOMAIN req THEN req.projectId ELSE req.project_id

\* the ids of the fields and options in an answer to the fields query
AnsweredIds(nodes) ==
    {nodes[i].id : i \in DOMAIN nodes}
    \cup UNION {{FieldOptions(nodes[i])[j].id :
                    j \in DOMAIN FieldOptions(nodes[i])} : i \in DOMAIN nodes}

\* C20: the first request of every call is the board resolution and it is
\* the only one of the call; every later request carries the board id that
\* resolution returned; update-field sends resolve, fields, mutate in this
\* order, with field and option ids taken from this call's fields answer or
\* from its arguments; between calls no id is kept.
C20_ReResolvesEveryCall ==
    /\ sent # <<>> =>
          /\ sent[1].op = "projectV2"
          /\ \A i \in 2..Len(sent) :
                /\ sent[i].op # "projectV2"
                /\ received[1].ok
                /\ RequestBoardId(sent[i]) =
                      received[1].data[sent[1].owner_type].projectV2.id
    /\ UpdateCall =>
          \A i \in DOMAIN sent :
              /\ sent[i].op = "fields" => i = 2
              /\ sent[i].op = "updateProjectV2ItemFieldValue" =>
                    /\ i = 3
                    /\ sent[2].op = "fields"
                    /\ sent[i].fieldId \in AnsweredIds(received[2].nodes)
                    /\ "singleSelectOptionId" \in DOMAIN sent[i].value =>
                          sent[i].value.singleSelectOptionId \in
                              AnsweredIds(received[2].nodes)
                              \cup {args.new_value_id}
    /\ pc = "idle" =>
          /\ project_node_id = NoneId
          /\ field_id = NoneId
          /\ options = EmptyDict
          /\ sent = <<>>

\* an update against the board whose id is not the first sample id
C20_Witness ==
    /\ UpdateCall /\ pc = "done"
    /\ boardId = "PVT_2"
    /\ Len(sent) = 3
    /\ sent[3].projectId = "PVT_2"
    /\ "singleSelectOptionId" \in DOMAIN sent[3].value
    /\ sent[3].value.singleSelectOptionId = OptionId(2, 2)

(***************************************************************************)
(* main: the request loop over the lines of stdin.                         *)
(***************************************************************************)
\* the id of the request on line i
RequestId(i) == ToString(i)

\* a line asking for github_get_project_items of the board
ListLine(i, state) ==
    [kind |-> "request", id |-> RequestId(i), method |-> "mcp_callTool",
     toolName |-> "github_get_project_items",
     toolArgs |-> [project_url |-> BOARD_URL, state |-> state]]

\* a line asking for github_create_project_item of a draft on the board
CreateLine(i, title, body) ==
    [kind |-> "request", id |-> RequestId(i), method |-> "mcp_callTool",
     toolName |-> "github_create_project_item",
     toolArgs |-> [project_url |-> BOARD_URL, title |-> title, body |-> body,
                   issue_id |-> NoneId]]

\* the line is a request handle_request passes on to a board tool function
IsToolCall(line) ==
    /\ line.kind = "request"
    /\ line.method = "mcp_callTool"
    /\ line.toolName \in {"github_get_project_items",
                          "github_create_project_item"}

\* a response written without the request's id
WrittenWithoutId(id, body) == [id |-> NoneId, body |-> body]

\* what send_response writes: the request's id and the result or error
Written(id, body) == [id |-> id, body |-> body]

\* main reads a tool call: handle_request enters the tool function
MainCallTool ==
    /\ pc = "idle"
    /\ lineno < Len(stdin)
    /\ IsToolCall(stdin[lineno + 1])
    /\ lineno' = lineno + 1
    /\ tool' = stdin[lineno + 1].toolName
    /\ args' = stdin[lineno + 1].toolArgs
    /\ IF /\ stdin[lineno + 1].toolName = "github_create_project_item"
          /\ ~Truthy(stdin[lineno + 1].toolArgs.issue_id)
          /\ ~Truthy(stdin[lineno + 1].toolArgs.title)
       THEN /\ response' = ToolError("ValueError",
                   "Either 'title' or 'issue_id' must be provided")
            /\ pc' = "done"
       ELSE /\ response' = response
            /\ pc' = "resolve"
    /\ UNCHANGED <<stdin, stdout, issue, touched, boardItems, boardFields,
                   boardId, itemsCreated, project_node_id, items,
                   has_next_page, end_cursor, field_id, options, input_value,
                   sent, received>>

\* handle_request writes the tool call's response with the request's id and
\* main goes back to readline
SendToolResponse ==
    /\ pc = "done"
    /\ lineno > 0
    /\ stdout' = Append(stdout, Written(stdin[lineno].id, response))
    /\ pc' = "idle"
    /\ tool' = "none"
    /\ args' = EmptyDict
    /\ project_node_id' = NoneId
    /\ items' = <<>>
    /\ has_next_page' = FALSE
    /\ end_cursor' = NoCursor
    /\ field_id' = NoneId
    /\ options' = EmptyDict
    /\ input_value' = EmptyDict
    /\ sent' = <<>>
    /\ received' = <<>>
    /\ response' = NoResponse
    /\ UNCHANGED <<stdin, lineno, issue, touched, boardItems, boardFields,
                   boardId, itemsCreated>>

\* readline returns '' at the end of input and the loop is left
MainEof ==
    /\ pc = "idle"
    /\ lineno = Len(stdin)
    /\ pc' = "exit"
    /\ UNCHANGED <<channel, issue, touched, boardItems, boardFields, boardId,
                   itemsCreated, tool, args>>
    /\ UNCHANGED locals

(***************************************************************************)
(* Two listings of one board, one after the other.                         *)
(***************************************************************************)
\* the boards listed twice: the start boards and one of three items
TwiceBoards ==
    StartBoards
    \cup
    {<<ItemNode(1, [type |-> "ISSUE", content |-> [state |-> "OPEN"],
                    fieldValues |-> <<[field |-> [name |-> "Status"],
                                       name |-> "Todo"]>>]),
       ItemNode(2, [type |-> "DRAFT_ISSUE", content |-> NullContent,
                    fieldValues |-> <<>>]),
       ItemNode(3, [type |-> "PULL_REQUEST", content |-> [state |-> "MERGED"],
                    fieldValues |-> <<>>])>>}

InitTwice ==
    /\ boardItems \in TwiceBoards
    /\ boardFields = <<>>
    /\ boardId = PROJECT_ID
    /\ itemsCreated = Len(boardItems)
    /\ \E st1 \in StateFilters, st2 \in StateFilters :
          stdin = <<ListLine(1, st1), ListLine(2, st2)>>
    /\ lineno = 0
    /\ stdout = <<>>
    /\ issue = EmptyDict
    /\ touched = {}
    /\ InitLocals

NextTwice ==
    \/ MainCallTool
    \/ GetProjectNodeId
    \/ GetProjectNodeIdNotFound
    \/ GetProjectNodeIdFails
    \/ FetchPage
    \/ FetchPageKeyError
    \/ FetchPageFails
    \/ SendToolResponse
    \/ MainEof

SpecTwice == InitTwice /\ [][NextTwice]_vars

\* C21: two listings of an unchanged board with the same state filter that
\* both return a result return the same result, element for element,
\* however the remote cut the board into pages in either call.
C21_ListingTwiceIsIdentical ==
    (/\ Len(stdout) = 2
     /\ stdin[1].toolArgs.state = stdin[2].toolArgs.state
     /\ stdout[1].body.type = "result"
     /\ stdout[2].body.type = "result") =>
        stdout[1].body = stdout[2].body

\* both listings of the board of three items returned all three
C21_Witness ==
    /\ Len(stdout) = 2
    /\ stdin[1].toolArgs.state = "ALL"
    /\ stdin[2].toolArgs.state = "ALL"
    /\ stdout[1].body.type = "result"
    /\ stdout[2].body.type = "result"
    /\ Len(stdout[2].body.toolResult) = 3
    /\ stdout[2].body.toolResult[1].fields # EmptyDict

(***************************************************************************)
(* A draft is created and the board is listed.                             *)
(***************************************************************************)
InitRoundTrip ==
    /\ boardItems \in StartBoards
    /\ boardFields = StartFields
    /\ boardId = PROJECT_ID
    /\ itemsCreated = Len(boardItems)
    /\ stdin = <<CreateLine(1, "T", "B"), ListLine(2, "ALL")>>
    /\ lineno = 0
    /\ stdout = <<>>
    /\ issue = EmptyDict
    /\ touched = {}
    /\ InitLocals

NextRoundTrip ==
    \/ MainCallTool
    \/ GetProjectNodeId
    \/ GetProjectNodeIdNotFound
    \/ GetProjectNodeIdFails
    \/ CreateProjectItem
    \/ CreateProjectItemRejected
    \/ CreateProjectItemFails
    \/ FetchPage
    \/ FetchPageKeyError
    \/ FetchPageFails
    \/ SendToolResponse
    \/ MainEof

SpecRoundTrip == InitRoundTrip /\ [][NextRoundTrip]_vars

\* C22: when the draft was created and the listing with ALL returned, the
\* listing holds exactly one item that was not on the board before: its id
\* is the id the creation returned, its type is DRAFT_ISSUE, its record has
\* no content attribute and its fields are empty.
C22_CreatedDraftIsListed ==
    (/\ Len(stdout) = 2
     /\ stdout[1].body.type = "result"
     /\ stdout[2].body.type = "result") =>
        LET created == stdout[1].body.toolResult.item_id
            result == stdout[2].body.toolResult
            before == {ItemId(k) : k \in 1..(itemsCreated - 1)}
            new == {j \in DOMAIN result : result[j].id \notin before}
        IN  /\ Cardinality(new) = 1
            /\ \A j \in new :
                  /\ result[j].id = created
                  /\ result[j].type = "DRAFT_ISSUE"
                  /\ DOMAIN result[j] = {"id", "type", "fields"}
                  /\ result[j].fields = EmptyDict

(***************************************************************************)
(* _github_update_issue.                                                   *)
(***************************************************************************)
\* the issues the repository holds when the call comes; milestones are
\* named by their number
SampleIssues ==
    {[title |-> "T", body |-> "B", state |-> "open", labels |-> {},
      assignees |-> {}, milestone |-> NoneId],
     [title |-> "T", body |-> "B", state |-> "open", labels |-> {"bug"},
      assignees |-> {"a"}, milestone |-> "1"]}

\* label and assignee lists a call supplies; NoneStr stands for None
LabelLists == {NoneStr, <<>>, <<"ui">>, <<"bug", "ui">>}
AssigneeLists == {NoneStr, <<>>, <<"b">>, <<"a", "b">>}

\* milestone_number arguments: None, -1 for "no milestone", a milestone of
\* the repository and one it does not have
MilestoneNumbers == {NoneId, "-1", "1", "9"}

\* mcp_callTool github_update_issue
CallUpdateIssue ==
    /\ pc = "idle"
    /\ \E title \in {NoneId, "T2"}, body \in {NoneId, "B2"},
          state \in {NoneId, "closed"}, labels \in LabelLists,
          assignees \in AssigneeLists, milestone_number \in MilestoneNumbers :
          args' = [repo_full_name |-> "o/r", issue_number |-> 1,
                   title |-> title, body |-> body, state |-> state,
                   labels |-> labels, assignees |-> assignees,
                   milestone_number |-> milestone_number]
    /\ tool' = "github_update_issue"
    /\ pc' = "get_issue"
    /\ UNCHANGED locals
    /\ UNCHANGED <<channel, issue, touched, boardItems, boardFields, boardId,
                   itemsCreated>>

\* handle_request's except branch after the except clauses of
\* _github_update_issue
IssueError(f) ==
    IF f = "GithubException"
    THEN ToolError("Exception", "GitHub API error updating issue")
    ELSE IF f = "UnknownObjectException"
    THEN ToolError("ValueError", "Issue not found in repository")
    ELSE ToolError(f, "transport failure")

\* a call of the client library fails at any of the library calls
UpdateIssueFails ==
    /\ pc \in {"get_issue", "set_labels", "assignees", "edit"}
    /\ \E f \in Failures \cup {"UnknownObjectException"} :
          /\ sent' = Append(sent, [op |-> pc])
          /\ received' = Append(received, [ok |-> FALSE, failure |-> f])
          /\ response' = IssueError(f)
    /\ pc' = "done"
    /\ UNCHANGED <<channel, issue, touched, boardItems, boardFields, boardId,
                   itemsCreated, tool, args, project_node_id, items,
                   has_next_page, end_cursor, field_id, options, input_value>>

\* repo.get_issue(issue_number) returns the issue as it is
GetIssue ==
    /\ pc = "get_issue"
    /\ sent' = Append(sent, [op |-> "get_issue"])
    /\ received' = Append(received, [ok |-> TRUE, issue |-> issue])
    /\ pc' = "set_labels"
    /\ UNCHANGED <<channel, issue, touched, boardItems, boardFields, boardId,
                   itemsCreated, tool, args, project_node_id, items,
                   has_next_page, end_cursor, field_id, options, input_value,
                   response>>

\* if labels is not None: issue.set_labels(*labels)
SetLabels ==
    /\ pc = "set_labels"
    /\ IF args.labels # NoneStr
       THEN /\ issue' = [issue EXCEPT !.labels = Range(args.labels)]
            /\ sent' = Append(sent, [op |-> "set_labels",
                                     labels |-> args.labels])
            /\ received' = Append(received, [ok |-> TRUE])
       ELSE UNCHANGED <<issue, sent, received>>
    /\ pc' = "assignees"
    /\ UNCHANGED <<channel, touched, boardItems, boardFields, boardId,
                   itemsCreated, tool, args, project_node_id, items,
                   has_next_page, end_cursor, field_id, options, input_value,
                   response>>

\* the assignees with the supplied ones added to the current ones
AssigneesAdded(current_assignees, assignees) ==
    current_assignees \cup Range(assignees)

\* the assignees after add_to_assignees(*to_add), remove_from_assignees(
\* *to_remove) and the removal of all current ones for an empty list
AssigneesAfter(current_assignees, assignees) ==
    LET to_add == {a \in Range(assignees) : a \notin current_assignees}
        to_remove == {a \in current_assignees : a \notin Range(assignees)}
        changed == (current_assignees \cup to_add) \ to_remove
    IN  IF assignees = <<>> /\ current_assignees # {}
        THEN changed \ current_assignees
        ELSE changed

\* if assignees is not None: the assignees are brought to the supplied list;
\* current_assignees is read from the issue as get_issue returned it
SetAssignees ==
    /\ pc = "assignees"
    /\ IF args.assignees # NoneStr
       THEN /\ issue' = [issue EXCEPT !.assignees =
                            AssigneesAfter(received[1].issue.assignees,
                                           args.assignees)]
            /\ sent' = Append(sent, [op |-> "assignees",
                                     assignees |-> args.assignees])
            /\ received' = Append(received, [ok |-> TRUE])
       ELSE UNCHANGED <<issue, sent, received>>
    /\ pc' = "edit"
    /\ UNCHANGED <<channel, touched, boardItems, boardFields, boardId,
                   itemsCreated, tool, args, project_node_id, items,
                   has_next_page, end_cursor, field_id, options, input_value,
                   response>>

\* the milestones of the repository
Milestones == {"1"}

\* update_params: the keys of the arguments that are not None, the
\* milestone as the object repo.get_milestone returned or None for -1
UpdateParams ==
    [k \in {x \in {"title", "body", "state"} : args[x] # NoneId}
           \cup (IF args.milestone_number # NoneId THEN {"milestone"} ELSE {})
       |-> IF k = "milestone"
           THEN (IF args.milestone_number = "-1" THEN NoneId
                 ELSE args.milestone_number)
           ELSE args[k]]

\* repo.get_milestone raises UnknownObjectException: the inner except
EditIssueMilestoneNotFound ==
    /\ pc = "edit"
    /\ args.milestone_number \notin Milestones \cup {NoneId, "-1"}
    /\ sent' = Append(sent, [op |-> "get_milestone"])
    /\ received' = Append(received, [ok |-> TRUE, found |-> FALSE])
    /\ response' = ToolError("ValueError", "Milestone number not found")
    /\ pc' = "done"
    /\ UNCHANGED <<channel, issue, touched, boardItems, boardFields, boardId,
                   itemsCreated, tool, args, project_node_id, items,
                   has_next_page, end_cursor, field_id, options, input_value>>

\* if update_params: issue.edit(**update_params); the success is returned
EditIssue ==
    /\ pc = "edit"
    /\ args.milestone_number \in Milestones \cup {NoneId, "-1"}
    /\ IF DOMAIN UpdateParams # {}
       THEN /\ issue' = [k \in DOMAIN issue |->
                            IF k \in DOMAIN UpdateParams THEN UpdateParams[k]
                            ELSE issue[k]]
            /\ sent' = Append(sent, [op |-> "edit", params |-> UpdateParams])
            /\ received' = Append(received, [ok |-> TRUE])
       ELSE UNCHANGED <<issue, sent, received>>
    /\ response' = ToolResult([success |-> TRUE])
    /\ pc' = "done"
    /\ UNCHANGED <<channel, touched, boardItems, boardFields, boardId,
                   itemsCreated, tool, args, project_node_id, items,
                   has_next_page, end_cursor, field_id, options, input_value>>

InitIssue ==
    /\ boardItems = <<>>
    /\ boardFields = <<>>
    /\ boardId = PROJECT_ID
    /\ itemsCreated = 0
    /\ stdin = <<>>
    /\ lineno = 0
    /\ stdout = <<>>
    /\ issue \in SampleIssues
    /\ touched = {}
    /\ InitLocals

NextIssue ==
    \/ CallUpdateIssue
    \/ UpdateIssueFails
    \/ GetIssue
    \/ SetLabels
    \/ SetAssignees
    \/ EditIssueMilestoneNotFound
    \/ EditIssue

SpecIssue == InitIssue /\ [][NextIssue]_vars

\* the update of the issue has returned its success
IssueUpdated ==
    /\ tool = "github_update_issue"
    /\ pc = "done"
    /\ response.type = "result"

\* C23: after a successful issue update every field that was not supplied
\* is as get_issue found it, every supplied scalar field has the supplied
\* value, and a supplied label or assignee list is the issue's set exactly
\* (an empty list clears it), not the union with what was there.
C23_PartialUpdateReplacesLists ==
    IssueUpdated =>
        LET old == received[1].issue
        IN  /\ \A k \in {"title", "body", "state"} :
                  issue[k] = IF args[k] = NoneId THEN old[k] ELSE args[k]
            /\ issue.labels = IF args.labels = NoneStr THEN old.labels
                              ELSE Range(args.labels)
            /\ issue.assignees = IF args.assignees = NoneStr THEN old.assignees
                                 ELSE Range(args.assignees)
            /\ issue.milestone =
                  IF args.milestone_number = NoneId THEN old.milestone
                  ELSE IF args.milestone_number = "-1" THEN NoneId
                  ELSE args.milestone_number

\* the assignee a is replaced by b, the label bug goes, the title stays
C23_Witness ==
    /\ IssueUpdated
    /\ received[1].issue.assignees = {"a"}
    /\ args.assignees = <<"b">>
    /\ args.labels = <<>>
    /\ args.title = NoneId
    /\ issue.assignees = {"b"}
    /\ issue.labels = {}
    /\ issue.title = "T"

(***************************************************************************)
(* main and handle_request over any lines.                                 *)
(***************************************************************************)
MaxLines == 2

\* the lines a client may send, without their id: text that is not JSON,
\* JSON that is not an object, the two plain methods, a method and a tool
\* the server does not have, and a listing of the board
LineShapes ==
    {[kind |-> "text"],
     [kind |-> "json"],
     [kind |-> "request", method |-> "mcp_ping"],
     [kind |-> "request", method |-> "mcp_queryTools"],
     [kind |-> "request", method |-> "mcp_other"],
     [kind |-> "request", method |-> "mcp_callTool", toolName |-> "nope",
      toolArgs |-> EmptyDict],
     [kind |-> "request", method |-> "mcp_callTool",
      toolName |-> "github_get_project_items",
      toolArgs |-> [project_url |-> BOARD_URL, state |-> "ALL"]]}

\* line i of the input: a request carries its id
Line(i, shape) ==
    IF shape.kind = "request" THEN Put(shape, "id", RequestId(i)) ELSE shape

Inputs ==
    UNION {{[i \in 1..n |-> Line(i, f[i])] : f \in [1..n -> LineShapes]} :
            n \in 0..MaxLines}

\* what is written for a line that reaches no board tool function: the
\* except clauses of main for text that is not JSON and for request.get on
\* what is not an object, and the branches of handle_request
SimpleResponse(line) ==
    IF line.kind = "text"
    THEN Written(NoneId, [type |-> "error", code |-> -32700,
                          message |-> "Parse error"])
    ELSE IF line.kind = "json"
    THEN Written(NoneId, [type |-> "error", code |-> -32000,
                          message |-> "Internal server error"])
    ELSE IF line.method = "mcp_ping"
    THEN Written(line.id, [type |-> "result", result |-> "pong"])
    ELSE IF line.method = "mcp_queryTools"
    THEN Written(line.id, [type |-> "result", result |-> "tools"])
    ELSE IF line.method = "mcp_callTool"
    THEN Written(line.id, [type |-> "error", code |-> -32601,
                           message |-> "Tool not found"])
    ELSE Written(line.id, [type |-> "error", code |-> -32600,
                           message |-> "Invalid Request"])

\* main reads a line that reaches no board tool function and its response
\* is written
MainHandleLine ==
    /\ pc = "idle"
    /\ lineno < Len(stdin)
    /\ ~IsToolCall(stdin[lineno + 1])
    /\ lineno' = lineno + 1
    /\ stdout' = Append(stdout, SimpleResponse(stdin[lineno + 1]))
    /\ UNCHANGED <<stdin, issue, touched, boardItems, boardFields, boardId,
                   itemsCreated, pc, tool, args>>
    /\ UNCHANGED locals

InitLoop ==
    /\ boardItems = <<>>
    /\ boardFields = <<>>
    /\ boardId = PROJECT_ID
    /\ itemsCreated = 0
    /\ stdin \in Inputs
    /\ lineno = 0
    /\ stdout = <<>>
    /\ issue = EmptyDict
    /\ touched = {}
    /\ InitLocals

NextLoop ==
    \/ MainHandleLine
    \/ MainCallTool
    \/ GetProjectNodeId
    \/ GetProjectNodeIdNotFound
    \/ GetProjectNodeIdFails
    \/ FetchPage
    \/ FetchPageFails
    \/ SendToolResponse
    \/ MainEof

SpecLoop == InitLoop /\ [][NextLoop]_vars

\* the response written for line i is an error with this code
ErrorWritten(i, code) ==
    /\ stdout[i].body.type = "error"
    /\ stdout[i].body.code = code

\* C24: every line read has exactly one response written before the next
\* line is read, in the order of the lines; the response to a request
\* carries the request's id; text that is not JSON, an unknown method, an
\* unknown tool and a tool that raises each get one error response; the
\* loop is left only when every line was read and answered.
C24_OneResponsePerLineInOrder ==
    /\ Len(stdout) = IF pc \in {"idle", "exit"} THEN lineno ELSE lineno - 1
    /\ \A i \in DOMAIN stdout :
          /\ stdin[i].kind = "request" => stdout[i].id = stdin[i].id
          /\ stdin[i].kind = "text" => ErrorWritten(i, -32700)
          /\ (stdin[i].kind = "request" /\ stdin[i].method = "mcp_other")
                => ErrorWritten(i, -32600)
          /\ (/\ stdin[i].kind = "request"
              /\ stdin[i].method = "mcp_callTool"
              /\ stdin[i].toolName = "nope") => ErrorWritten(i, -32601)
    /\ (pc = "done" /\ response.type = "error") =>
          /\ Len(stdout) = lineno - 1
          /\ ENABLED SendToolResponse
    /\ pc = "exit" => (lineno = Len(stdin) /\ Len(stdout) = Len(stdin))

\* text that is not JSON, then a listing that raised: both answered with
\* an error, then the end of input
C24_Witness ==
    /\ pc = "exit"
    /\ Len(stdin) = 2
    /\ stdin[1].kind = "text"
    /\ IsToolCall(stdin[2])
    /\ ErrorWritten(1, -32700)
    /\ ErrorWritten(2, -32000)
    /\ stdout[2].id = RequestId(2)

(***************************************************************************)
(* get_safe_path and the file tools.  A path is the sequence of its        *)
(* letters, so that startswith compares letters as the code does.          *)
(***************************************************************************)
MaxPathLen == 5

\* BASE_PATH, the absolute path os.path.abspath made of the environment's
\* setting: /b
BASE_PATH == <<"/", "b">>

\* the requested paths: up to MaxPathLen letters out of four
RequestedPaths ==
    UNION {[1..n -> {"/", ".", "b", "2"}] : n \in 0..MaxPathLen}

\* str.startswith
startswith(s, prefix) ==
    /\ Len(prefix) <= Len(s)
    /\ SubSeq(s, 1, Len(prefix)) = prefix

\* the containment test that compares whole names: the base or below it
startswith_dir(s, prefix) ==
    \/ s = prefix
    \/ startswith(s, IF prefix[Len(prefix)] = "/" THEN prefix
                     ELSE Append(prefix, "/"))

\* path.split('/')
RECURSIVE split(_)
split(s) ==
    IF "/" \notin Range(s)
    THEN <<s>>
    ELSE LET i == Index(s, "/")
         IN  <<SubSeq(s, 1, i - 1)>> \o split(SubSeq(s, i + 1, Len(s)))

\* '/'.join(comps)
RECURSIVE join_slash(_)
join_slash(comps) ==
    IF comps = <<>> THEN <<>>
    ELSE IF Len(comps) = 1 THEN comps[1]
    ELSE comps[1] \o <<"/">> \o join_slash(Tail(comps))

\* os.path.join(a, b): an absolute b replaces a
join(a, b) ==
    IF startswith(b, <<"/">>) THEN b
    ELSE IF a = <<>> \/ a[Len(a)] = "/" THEN a \o b
    ELSE a \o <<"/">> \o b

\* the loop of os.path.normpath over the components: '' and '.' are
\* skipped, '..' takes the last component away and stays at the root
RECURSIVE norm_comps(_, _, _)
norm_comps(comps, initial_slashes, new_comps) ==
    IF comps = <<>> THEN new_comps
    ELSE LET comp == Head(comps)
             rest == Tail(comps)
         IN  IF comp \in {<<>>, <<".">>}
             THEN norm_comps(rest, initial_slashes, new_comps)
             ELSE IF \/ comp # <<".", ".">>
                     \/ (initial_slashes = 0 /\ new_comps = <<>>)
                     \/ (/\ new_comps # <<>>
                         /\ new_comps[Len(new_comps)] = <<".", ".">>)
             THEN norm_comps(rest, initial_slashes, Append(new_comps, comp))
             ELSE IF new_comps # <<>>
             THEN norm_comps(rest, initial_slashes,
                             SubSeq(new_comps, 1, Len(new_comps) - 1))
             ELSE norm_comps(rest, initial_slashes, new_comps)

\* os.path.normpath; exactly two leading slashes are kept
normpath(path) ==
    IF path = <<>> THEN <<".">>
    ELSE LET initial_slashes ==
                 IF ~startswith(path, <<"/">>) THEN 0
                 ELSE IF startswith(path, <<"/", "/">>)
                         /\ ~startswith(path, <<"/", "/", "/">>) THEN 2
                 ELSE 1
             out == [i \in 1..initial_slashes |-> "/"]
                    \o join_slash(norm_comps(split(path), initial_slashes, <<>>))
         IN  IF out = <<>> THEN <<".">> ELSE out

\* os.path.dirname: up to the last slash, without trailing slashes unless
\* nothing else is left
RECURSIVE rstrip_slash(_)
rstrip_slash(s) ==
    IF s # <<>> /\ s[Len(s)] = "/" THEN rstrip_slash(SubSeq(s, 1, Len(s) - 1))
    ELSE s

dirname(p) ==
    LET slashes == {i \in DOMAIN p : p[i] = "/"}
        i == IF slashes = {} THEN 0
             ELSE CHOOSE k \in slashes : \A j \in slashes : j <= k
        head == SubSeq(p, 1, i)
    IN  IF head # <<>> /\ Range(head) # {"/"} THEN rstrip_slash(head) ELSE head

\* get_safe_path: the absolute path, or the ValueError
get_safe_path(requested_path) ==
    \* os.path.abspath of an absolute path is its normpath
    LET absolute_path == normpath(join(BASE_PATH, requested_path))
    IN  IF ~startswith(absolute_path, BASE_PATH)
        THEN [raise |-> ToolError("ValueError", "Access denied")]
        ELSE [path |-> absolute_path]

FileTools == {"read_file", "write_file", "append_to_file", "list_directory",
              "create_directory"}

\* a location of the file system and the call made on it
Touch(path, how) == [path |-> path, how |-> how]

\* handle_request calls one of the file tools with a path
CallFileTool ==
    /\ pc = "idle"
    /\ \E t \in FileTools, path \in RequestedPaths :
          /\ tool' = t
          /\ args' = [path |-> path]
    /\ pc' = "safe_path"
    /\ UNCHANGED <<channel, issue, touched, boardItems, boardFields, boardId,
                   itemsCreated>>
    /\ UNCHANGED locals

\* the tool ends with what it touched and its result or exception
FileToolEnds(touches, outcome) ==
    /\ touched' = touched \cup touches
    /\ response' = outcome
    /\ pc' = "done"
    /\ UNCHANGED <<channel, issue, boardItems, boardFields, boardId,
                   itemsCreated, tool, args, project_node_id, items,
                   has_next_page, end_cursor, field_id, options, input_value,
                   sent, received>>

\* any file tool: get_safe_path raises and nothing is touched
FileToolAccessDenied ==
    /\ pc = "safe_path"
    /\ "raise" \in DOMAIN get_safe_path(args.path)
    /\ FileToolEnds({}, get_safe_path(args.path).raise)

\* _read_file of a file that is there
ReadFile ==
    /\ pc = "safe_path"
    /\ tool = "read_file"
    /\ "raise" \notin DOMAIN get_safe_path(args.path)
    /\ LET safe_path == get_safe_path(args.path).path
       IN  FileToolEnds({Touch(safe_path, "isfile"), Touch(safe_path, "open_r")},
                        ToolResult("content"))

\* _read_file where os.path.isfile says no
ReadFileNotFound ==
    /\ pc = "safe_path"
    /\ tool = "read_file"
    /\ "raise" \notin DOMAIN get_safe_path(args.path)
    /\ LET safe_path == get_safe_path(args.path).path
       IN  FileToolEnds({Touch(safe_path, "isfile")},
                        ToolError("FileNotFoundError", "File not found"))

\* _write_file and _append_to_file: the directory is made, the file opened
\* and written
WriteOrAppendFile ==
    /\ pc = "safe_path"
    /\ tool \in {"write_file", "append_to_file"}
    /\ "raise" \notin DOMAIN get_safe_path(args.path)
    /\ LET safe_path == get_safe_path(args.path).path
           mode == IF tool = "write_file" THEN "open_w" ELSE "open_a"
       IN  FileToolEnds({Touch(dirname(safe_path), "makedirs"),
                         Touch(safe_path, mode)},
                        ToolResult("written"))

\* _write_file and _append_to_file where open raises (the path is a
\* directory, or may not be written)
WriteOrAppendFileOSError ==
    /\ pc = "safe_path"
    /\ tool \in {"write_file", "append_to_file"}
    /\ "raise" \notin DOMAIN get_safe_path(args.path)
    /\ LET safe_path == get_safe_path(args.path).path
           mode == IF tool = "write_file" THEN "open_w" ELSE "open_a"
       IN  FileToolEnds({Touch(dirname(safe_path), "makedirs"),
                         Touch(safe_path, mode)},
                        ToolError("OSError", "cannot open"))

\* _list_directory of a directory that is there
ListDirectory ==
    /\ pc = "safe_path"
    /\ tool = "list_directory"
    /\ "raise" \notin DOMAIN get_safe_path(args.path)
    /\ LET safe_path == get_safe_path(args.path).path
       IN  FileToolEnds({Touch(safe_path, "isdir"), Touch(safe_path, "listdir")},
                        ToolResult("entries"))

\* _list_directory where os.path.isdir says no
ListDirectoryNotFound ==
    /\ pc = "safe_path"
    /\ tool = "list_directory"
    /\ "raise" \notin DOMAIN get_safe_path(args.path)
    /\ LET safe_path == get_safe_path(args.path).path
       IN  FileToolEnds({Touch(safe_path, "isdir")},
                        ToolError("NotADirectoryError", "Directory not found"))

\* _create_directory
CreateDirectory ==
    /\ pc = "safe_path"
    /\ tool = "create_directory"
    /\ "raise" \notin DOMAIN get_safe_path(args.path)
    /\ LET safe_path == get_safe_path(args.path).path
       IN  FileToolEnds({Touch(safe_path, "makedirs")}, ToolResult("created"))

InitPath ==
    /\ boardItems = <<>>
    /\ boardFields = <<>>
    /\ boardId = PROJECT_ID
    /\ itemsCreated = 0
    /\ NoClient
    /\ InitLocals

NextPath ==
    \/ CallFileTool
    \/ FileToolAccessDenied
    \/ ReadFile
    \/ ReadFileNotFound
    \/ WriteOrAppendFile
    \/ WriteOrAppendFileOSError
    \/ ListDirectory
    \/ ListDirectoryNotFound
    \/ CreateDirectory

SpecPath == InitPath /\ [][NextPath]_vars

\* the base directory itself or a location below it
InsideBase(p) == startswith_dir(p, BASE_PATH)

\* C25: for every requested path get_safe_path raises the access-denied
\* error or returns the base directory or a path below it, and no file tool
\* touches a location outside the base directory.
C25_StaysInsideBase ==
    /\ pc \in {"safe_path", "done"} /\ tool \in FileTools =>
          LET r == get_safe_path(args.path)
          IN  "raise" \in DOMAIN r \/ InsideBase(r.path)
    /\ \A t \in touched : InsideBase(t.path)

====
